---- MODULE Spec2Model ----
(***************************************************************************)
(* A model of the resilience layer of android_world's benchmark harness:   *)
(*   - the inference gateways of android_world/agents/infer.py             *)
(*     (GeminiGcpWrapper: pacing + backoff, Gpt4Wrapper: backoff only);    *)
(*   - the observation recovery of android_world/env/ui_tree_wrapper.py    *)
(*     (get_a11y_tree, UITreeWrapper.get_a11y_forest / refresh_env).       *)
(* Time is the integer wall clock `now`, in seconds.  The remote backends  *)
(* and the device session are environments: each remote call and each poll *)
(* draws its outcome from a small set.                                     *)
(***************************************************************************)
EXTENDS Integers, Sequences, FiniteSets, TLC

VARIABLES
  \* ---- inference gateway (infer.py) ----
  environ,               \* names present in os.environ
  pc,                    \* "new" | "ctor_raised" | "idle" | "loop" | "returned"
  variant,               \* "none" | "A" (GeminiGcpWrapper) | "B" (Gpt4Wrapper)
  ctor_arg,              \* __init__'s max_retry argument (0 once its frame is gone)
  error,                 \* exception that reached the caller: "none" | "RuntimeError"
  max_retry,             \* self.max_retry
  time_of_last_request,  \* self.time_of_last_request (GeminiGcpWrapper)
  now,                   \* time.time()
  counter,               \* predict_mm local: remaining attempts
  retry_delay,           \* GeminiGcpWrapper.predict_mm local
  wait_seconds,          \* Gpt4Wrapper.predict_mm local
  result,                \* value returned by predict_mm: <<text, raw>>, <<>> before
  outcomes,              \* history: backend outcome of each remote call of this invoke
  sleeps,                \* history: backoff sleeps (seconds) of this invoke, in order
  pacing,                \* history: pacing wait before the latest remote call
  issued,                \* history: generate_content calls issued by this instance
  invokes,               \* history: predict_mm calls made on this instance
  \* ---- observation recovery (ui_tree_wrapper.py) ----
  env,                   \* UITreeWrapper._env: [id, chain, config]
  opc,                   \* "idle" | "check" | "probe" | "poll" | "refresh"
                         \*   | "returned" | "raised"
  attempt,               \* which get_a11y_tree call of get_a11y_forest runs: 1 | 2
  tries,                 \* get_a11y_tree: iterations of the for loop done
  forest,                \* value returned by get_a11y_forest, NoForest before
  oerror,                \* exception raised to get_a11y_forest's caller
  probes,                \* history: airplane-mode probes of this capture
  net_fixes,             \* history: attempt_enable_networking calls of this capture
  naps,                  \* history: time.sleep calls of this capture
  reconnects,            \* history: refresh_env calls of this capture
  poll_log,              \* history: outcome of each poll of this capture
  env_at_start,          \* history: _env when get_a11y_forest was entered
  sessions,              \* history: device sessions built so far
  captures,              \* history: get_a11y_forest calls made
  \* ---- episode driver (benchmark_run.py) ----
  max_rounds,            \* args.max_rounds
  dpc,                   \* "setup" | "loop" | "step" | "log" | "finally"
                         \*   | "summary" | "write" | "exit" | "exited"
  action_cnt,            \* loop variable, Unbound before the first iteration
  is_done,               \* is_done
  error_code,            \* error_code
  benchmark_log,         \* benchmark_log
  total_prompt_tokens,   \* total_prompt_tokens
  total_completion_tokens, \* total_completion_tokens
  response,              \* what agent.step returned, NoResponse outside "log"
  raising,               \* exception propagating out of the try block
  uncaught,              \* exception that ended the process
  error_file,            \* <output_dir>/error.json: [exists, content]
  log_file,              \* <output_dir>/log.json: <<>> while not written
  exit_code,             \* process exit status, NoExit while running
  agent_steps,           \* history: agent.step calls
  closes,                \* history: env.close calls
  log_writes,            \* history: times log.json was written
  error_reports,         \* history: print_and_log_error calls
  behaviour,             \* history: what the agent did on each step
  \* ---- action normalization (benchmark_run.py, lines 94-139) ----
  npc,                   \* "input" | "normalized"
  converted_action,      \* response.data[grounded_action_key]
  data,                  \* response.data['actual_action_coordinates']
  action_log             \* action_log: <<action type, details>>, <<>> before

gwVars == <<environ, pc, variant, ctor_arg, error, max_retry,
            time_of_last_request, now, counter, retry_delay, wait_seconds,
            result, outcomes, sleeps, pacing, issued,
            invokes>>

obsVars == <<env, opc, attempt, tries, forest, oerror, probes, net_fixes,
             naps, reconnects, poll_log, env_at_start, sessions, captures>>

drvVars == <<max_rounds, dpc, action_cnt, is_done, error_code, benchmark_log,
             total_prompt_tokens, total_completion_tokens,
             response, raising, uncaught, error_file, log_file, exit_code,
             agent_steps, closes, log_writes, error_reports, behaviour>>

normVars == <<npc, converted_action, data, action_log>>

vars == <<gwVars, obsVars, drvVars, normVars>>

\* What the steps of one component leave alone.
notGateway == <<obsVars, drvVars, normVars>>
notObs == <<gwVars, drvVars, normVars>>
notDriver == <<gwVars, obsVars, normVars>>
notNormalize == <<gwVars, obsVars, drvVars>>

(***************************************************************************)
(* Program constants.                                                      *)
(***************************************************************************)
TIME_BETWEEN_REQUESTS == 15
RETRY_WAITING_SECONDS == 20
DEFAULT_MAX_RETRY == 3
MAX_RETRY_CEILING == 5
ERROR_CALLING_LLM == "Error calling LLM"

(***************************************************************************)
(* Bounds of the model.                                                    *)
(***************************************************************************)
MinRetryArg == 2      \* max_retry arguments range over -MinRetryArg..MaxRetryArg
MaxRetryArg == 7
MaxInvokes == 2       \* predict_mm calls per gateway instance
MaxSoftErrors == 3    \* well-formed HTTP error responses per Gpt4Wrapper invoke
MaxOversleep == 1     \* seconds time.sleep may overshoot its argument
MaxIdleGap == 16      \* largest idle time between two predict_mm calls
MaxCallTime == 2      \* largest duration of one remote call

RetryArgs == (0 - MinRetryArg)..MaxRetryArg
Oversleeps == 0..MaxOversleep
IdleGaps == {0, 7, MaxIdleGap}
CallTimes == {0, MaxCallTime}
Texts == {"t1", "t2"}

None == [kind |-> "None"]
Min(a, b) == IF a <= b THEN a ELSE b
Last(s) == s[Len(s)]

\* What one remote call can do.  "raise": the call throws.  "ok": a 2xx
\* response with a well-formed body.  Gpt4Wrapper only: "http_error" is a
\* non-ok response whose JSON carries error.message; "malformed" is a non-ok
\* or choice-less response without a readable error.message.
OkResponses == [kind : {"ok"}, text : Texts]
GeminiOutcomes == OkResponses \cup {[kind |-> "raise"]}
Gpt4Outcomes == OkResponses \cup
                {[kind |-> "raise"], [kind |-> "http_error"], [kind |-> "malformed"]}

Sentinel == <<ERROR_CALLING_LLM, None>>

(***************************************************************************)
(* Construction: credential check and retry-budget clamping.               *)
(***************************************************************************)
\* Mutant: the credential check is skipped.
GcpKeyNotChecked == TRUE

GcpKeySet == "GCP_API_KEY" \in environ
OpenaiKeySet == "OPENAI_API_KEY" \in environ

\* Mutant: the reset of a non-positive argument is lost.
ClampRetryNoDefault(m) == Min(m, MAX_RETRY_CEILING)

\* if max_retry <= 0: max_retry = 3;  self.max_retry = min(max_retry, 5)
ClampRetry(m) ==
  Min(IF m <= 0 THEN DEFAULT_MAX_RETRY ELSE m, MAX_RETRY_CEILING)

GeminiInit(arg) ==
  /\ pc = "new"
  /\ variant' = "A"
  /\ ctor_arg' = arg
  /\ IF ~GcpKeySet
     THEN /\ pc' = "ctor_raised"
          /\ error' = "RuntimeError"
          /\ UNCHANGED <<max_retry, time_of_last_request>>
     ELSE /\ pc' = "idle"
          /\ max_retry' = ClampRetry(arg)
          /\ time_of_last_request' = now - TIME_BETWEEN_REQUESTS
          /\ UNCHANGED error
  /\ UNCHANGED <<environ, now, counter, retry_delay, wait_seconds, result,
                 outcomes, sleeps, pacing, issued, invokes>>
  /\ UNCHANGED notGateway

Gpt4Init(arg) ==
  /\ pc = "new"
  /\ variant' = "B"
  /\ ctor_arg' = arg
  /\ IF ~OpenaiKeySet
     THEN /\ pc' = "ctor_raised"
          /\ error' = "RuntimeError"
          /\ UNCHANGED max_retry
     ELSE /\ pc' = "idle"
          /\ max_retry' = ClampRetry(arg)
          /\ UNCHANGED error
  /\ UNCHANGED <<environ, time_of_last_request, now, counter, retry_delay,
                 wait_seconds, result, outcomes, sleeps, pacing,
                 issued, invokes>>
  /\ UNCHANGED notGateway

(***************************************************************************)
(* time.sleep(d) suspends for at least d seconds.                          *)
(***************************************************************************)
Slept(d, over) == IF d > 0 THEN d + over ELSE 0

(***************************************************************************)
(* GeminiGcpWrapper.predict_mm: one action for entering the call, one per  *)
(* iteration of the while loop, one for the caller taking the result.      *)
(***************************************************************************)
GeminiStart(gap) ==
  /\ pc = "idle" /\ variant = "A"
  /\ invokes < MaxInvokes
  /\ invokes' = invokes + 1
  /\ now' = now + gap
  /\ counter' = max_retry
  /\ retry_delay' = TIME_BETWEEN_REQUESTS
  /\ result' = <<>>
  /\ outcomes' = <<>>
  /\ sleeps' = <<>>
  /\ pc' = "loop"
  /\ ctor_arg' = 0
  /\ UNCHANGED <<environ, variant, error, max_retry,
                 time_of_last_request, wait_seconds, pacing,
                 issued>>
  /\ UNCHANGED notGateway

\* Mutant: no pacing wait.
PacingSleepNever(time_since_last_request) == 0

\* if time_since_last_request < T: time.sleep(T - time_since_last_request)
PacingSleep(time_since_last_request) ==
  IF time_since_last_request < TIME_BETWEEN_REQUESTS
  THEN TIME_BETWEEN_REQUESTS - time_since_last_request
  ELSE 0

\* Mutant: the counter is decremented twice per failure.
GeminiCounterTwice(c) == c - 2

\* except: counter -= 1
GeminiCounterAfterError(c) == c - 1

\* if counter > 0: time.sleep(retry_delay)
GeminiBackoff(c, delay) == IF c > 0 THEN delay ELSE 0

\* Mutant: the raw response is dropped.
GeminiReturnNoRaw(output) == <<output.text, None>>

\* return output.text, output
GeminiReturn(output) == <<output.text, output>>

GeminiAttempt(out, dur, over) ==
  /\ pc = "loop" /\ variant = "A"
  /\ counter > 0
  /\ LET wait    == PacingSleep(now - time_of_last_request)
         t_issue == now + Slept(wait, over)
         t_done  == t_issue + dur
         c       == GeminiCounterAfterError(counter)
         backoff == GeminiBackoff(c, retry_delay)
     IN /\ pacing' = wait
        /\ time_of_last_request' = t_issue
        /\ issued' = issued + 1
        /\ outcomes' = Append(outcomes, out)
        /\ IF out.kind = "ok"
           THEN /\ result' = GeminiReturn(out)
                /\ pc' = "returned"
                /\ now' = t_done
                /\ UNCHANGED <<counter, retry_delay, sleeps>>
           ELSE /\ counter' = c
                /\ now' = t_done + Slept(backoff, over)
                /\ sleeps' = IF backoff > 0 THEN Append(sleeps, backoff) ELSE sleeps
                /\ retry_delay' = IF c > 0 THEN retry_delay * 2 ELSE retry_delay
                /\ IF c > 0
                   THEN pc' = "loop" /\ UNCHANGED result
                   ELSE pc' = "returned" /\ result' = Sentinel
  /\ UNCHANGED <<environ, variant, ctor_arg, error, max_retry, wait_seconds,
                 invokes>>
  /\ UNCHANGED notGateway

(***************************************************************************)
(* Gpt4Wrapper.predict_mm.  It never reads the clock: its time.sleep calls *)
(* are recorded in `sleeps`, and `now` and `issued` belong to the pacing   *)
(* of GeminiGcpWrapper.                                                    *)
(***************************************************************************)
Gpt4Start ==
  /\ pc = "idle" /\ variant = "B"
  /\ invokes < MaxInvokes
  /\ invokes' = invokes + 1
  /\ counter' = max_retry
  /\ wait_seconds' = RETRY_WAITING_SECONDS
  /\ result' = <<>>
  /\ outcomes' = <<>>
  /\ sleeps' = <<>>
  /\ pc' = "loop"
  /\ ctor_arg' = 0
  /\ UNCHANGED <<environ, variant, error, max_retry,
                 time_of_last_request, now, retry_delay, pacing,
                 issued>>
  /\ UNCHANGED notGateway

\* The counter after a failed attempt.  A response that is not ok (or has no
\* 'choices') but carries error.message is printed, slept on and retried
\* inside the try block: the except clause, which holds the only
\* `counter -= 1`, is not entered.
Gpt4CounterAfterFailure(c, kind) ==
  IF kind = "http_error" THEN c ELSE c - 1

\* return response.json()['choices'][0]['message']['content'], response
Gpt4Return(resp) == <<resp.text, resp>>

SoftErrors(h) == Cardinality({i \in 1..Len(h) : h[i].kind = "http_error"})

Gpt4Attempt(out) ==
  /\ pc = "loop" /\ variant = "B"
  /\ counter > 0
  /\ out.kind = "http_error" => SoftErrors(outcomes) < MaxSoftErrors
  /\ outcomes' = Append(outcomes, out)
  /\ IF out.kind = "ok"
     THEN /\ result' = Gpt4Return(out)
          /\ pc' = "returned"
          /\ UNCHANGED <<counter, wait_seconds, sleeps>>
     ELSE LET c == Gpt4CounterAfterFailure(counter, out.kind)
          IN /\ sleeps' = Append(sleeps, wait_seconds)
             /\ wait_seconds' = wait_seconds * 2
             /\ counter' = c
             /\ IF c > 0
                THEN pc' = "loop" /\ UNCHANGED result
                ELSE pc' = "returned" /\ result' = Sentinel
  /\ UNCHANGED <<environ, variant, ctor_arg, error, max_retry,
                 time_of_last_request, now, retry_delay, pacing,
                 issued, invokes>>
  /\ UNCHANGED notGateway

\* The caller has the result and predict_mm's frame is gone; the instance is
\* ready for the next call.
InvokeDone ==
  /\ pc = "returned"
  /\ pc' = "idle"
  /\ counter' = 0
  /\ retry_delay' = 0
  /\ wait_seconds' = 0
  /\ result' = <<>>
  /\ outcomes' = <<>>
  /\ sleeps' = <<>>
  /\ UNCHANGED <<environ, variant, ctor_arg, error, max_retry,
                 time_of_last_request, now, pacing, issued, invokes>>
  /\ UNCHANGED notGateway

(***************************************************************************)
(* Observation recovery: android_world/env/ui_tree_wrapper.py.             *)
(* A device session is a chain of layers, outermost first; every layer but *)
(* the last holds the next one in its _env attribute.                      *)
(***************************************************************************)
max_retries == 5
A11yGrpcWrapper == "A11yGrpcWrapper"

MaxCaptures == 2      \* get_a11y_forest calls per UITreeWrapper

SessionChains ==
  { <<A11yGrpcWrapper, "AndroidEnv">>,
    <<"BaseWrapper", A11yGrpcWrapper, "AndroidEnv">>,
    <<"BaseWrapper", "AndroidEnv">>,
    <<"AndroidEnv">> }
SessionConfigs == {"emulator-5554", "emulator-5556"}
Trees == {"f1", "f2"}
NoForest == [kind |-> "None"]

\* What one poll, env.accumulate_new_extras()['accessibility_tree'][-1], can
\* do: yield the latest forest, raise KeyError (no tree among the extras
\* yet), or raise an exception that is neither KeyError nor RuntimeError.
PollOutcomes ==
  [kind : {"forest"}, tree : Trees] \cup
  {[kind |-> "KeyError"], [kind |-> "OtherError"]}

\* Mutant: only the outermost layer is inspected.
HasWrapperOutermost(chain, target_wrapper) == Head(chain) = target_wrapper

RECURSIVE _has_wrapper(_, _)
_has_wrapper(chain, target_wrapper) ==
  IF Head(chain) = target_wrapper THEN TRUE
  ELSE IF Len(chain) > 1 THEN _has_wrapper(Tail(chain), target_wrapper)
  ELSE FALSE

\* Mutant: every exception of the first get_a11y_tree call is caught.
CaughtAny(attempt_no, exc) == attempt_no = 1

\* Mutant: the second get_a11y_tree call is guarded like the first.
CaughtBothCalls(attempt_no, exc) == exc = "RuntimeError"

\* get_a11y_forest: the first get_a11y_tree call is inside
\* `try: ... except RuntimeError`, the second is not guarded.
Caught(attempt_no, exc) == attempt_no = 1 /\ exc = "RuntimeError"

\* Mutant: the session built by get_wrapped is not stored in self._env.
RefreshedEnvDropped(old, id) == old

\* refresh_env: self._env = get_wrapped(<ports, adb path, serial of the
\* current session's config>).env; get_wrapped builds a UITreeWrapper, whose
\* _env is an A11yGrpcWrapper around the freshly loaded AndroidEnv.
RefreshedEnv(old, id) ==
  [id |-> id, chain |-> <<A11yGrpcWrapper, "AndroidEnv">>, config |-> old.config]

\* An exception leaves get_a11y_tree: either get_a11y_forest catches it and
\* goes on to refresh_env, or it reaches the caller.
Raise(exc) ==
  IF Caught(attempt, exc)
  THEN /\ opc' = "refresh"
       /\ UNCHANGED oerror
  ELSE /\ opc' = "raised"
       /\ oerror' = exc

\* get_a11y_forest is entered.
CaptureStart ==
  /\ opc = "idle"
  /\ captures < MaxCaptures
  /\ captures' = captures + 1
  /\ opc' = "check"
  /\ attempt' = 1
  /\ tries' = 0
  /\ forest' = NoForest
  /\ oerror' = "none"
  /\ probes' = 0
  /\ net_fixes' = 0
  /\ naps' = 0
  /\ reconnects' = 0
  /\ poll_log' = <<>>
  /\ env_at_start' = env
  /\ UNCHANGED <<env, sessions>>
  /\ UNCHANGED notObs

\* get_a11y_tree, lines 72-75.
CheckWrapper ==
  /\ opc = "check"
  /\ IF ~_has_wrapper(env.chain, A11yGrpcWrapper)
     THEN Raise("ValueError")
     ELSE opc' = "probe" /\ UNCHANGED oerror
  /\ UNCHANGED <<env, attempt, tries, forest, probes, net_fixes, naps,
                 reconnects, poll_log, env_at_start, sessions, captures>>
  /\ UNCHANGED notObs

\* get_a11y_tree, lines 77-88.
ProbeAirplaneMode(on) ==
  /\ opc = "probe"
  /\ probes' = probes + 1
  /\ net_fixes' = IF on THEN net_fixes + 1 ELSE net_fixes
  /\ naps' = IF on THEN naps + 1 ELSE naps
  /\ tries' = 0
  /\ opc' = "poll"
  /\ UNCHANGED <<env, attempt, forest, oerror, reconnects, poll_log,
                 env_at_start, sessions, captures>>
  /\ UNCHANGED notObs

\* Mutant: the loop makes one poll fewer.
LoopDoneEarly(n) == n >= max_retries - 1

\* for _ in range(max_retries)
LoopDone(n) == n >= max_retries

\* get_a11y_tree, lines 89-99: one iteration of the for loop, and on the
\* last one the code after the loop.
Poll(out) ==
  /\ opc = "poll"
  /\ ~LoopDone(tries)
  /\ poll_log' = Append(poll_log, out)
  /\ CASE out.kind = "forest" ->
            /\ forest' = [tree |-> out.tree, session |-> env.id]
            /\ opc' = "returned"
            /\ UNCHANGED <<tries, naps, oerror>>
       [] out.kind = "KeyError" ->
            /\ tries' = tries + 1
            /\ naps' = naps + 1
            /\ IF LoopDone(tries + 1)
               THEN Raise("RuntimeError")
               ELSE opc' = "poll" /\ UNCHANGED oerror
            /\ UNCHANGED forest
       [] OTHER ->
            /\ Raise("OtherError")
            /\ UNCHANGED <<tries, naps, forest>>
  /\ UNCHANGED <<env, attempt, probes, net_fixes, reconnects, env_at_start,
                 sessions, captures>>
  /\ UNCHANGED notObs

\* get_a11y_forest, lines 190-196: refresh_env, then the second call.
Refresh ==
  /\ opc = "refresh"
  /\ sessions' = sessions + 1
  /\ env' = RefreshedEnv(env, sessions + 1)
  /\ reconnects' = reconnects + 1
  /\ attempt' = 2
  /\ opc' = "check"
  /\ UNCHANGED <<tries, forest, oerror, probes, net_fixes, naps, poll_log,
                 env_at_start, captures>>
  /\ UNCHANGED notObs

\* The caller has the forest or the exception.
CaptureDone ==
  /\ opc \in {"returned", "raised"}
  /\ opc' = "idle"
  /\ attempt' = 1
  /\ tries' = 0
  /\ forest' = NoForest
  /\ oerror' = "none"
  /\ probes' = 0
  /\ net_fixes' = 0
  /\ naps' = 0
  /\ reconnects' = 0
  /\ poll_log' = <<>>
  /\ env_at_start' = env
  /\ UNCHANGED <<env, sessions, captures>>
  /\ UNCHANGED notObs

(***************************************************************************)
(* Action normalization: benchmark_run.py, lines 94-139.  The grounded     *)
(* action is either a string token or a structured action carrying an      *)
(* action_type tag; action_log is the (type, details) pair that goes into  *)
(* the step's log entry.  A formatted detail is the sequence of its parts. *)
(***************************************************************************)
RecognizedTypes ==
  {"click", "double_tap", "input_text", "keyboard_enter", "long_press",
   "navigate_back", "navigate_home", "open_app", "scroll", "status", "swipe"}

\* Tags a structured action can carry: the recognized ones, the three the
\* else branch names, one outside the enumeration, and None.
ActionTags == RecognizedTypes \cup {"wait", "answer", "unknown", "drag", "None"}

InputTexts == {"hello", ""}
AppNames == {"Clock", "Files"}
Directions == {"up", "down"}
Coordinates == {<<1, 2, 3, 4>>, <<5, 6, 7, 8>>}
StringTokens == {"wait", "Failed to convert the output to a valid action."}

GroundedActions ==
  [kind : {"str"}, token : StringTokens] \cup
  [kind : {"structured"}, action_type : ActionTags, text : InputTexts,
   app_name : AppNames, direction : Directions]

\* Mutant: the else branch no longer resets the action type.
ActionTypeKeepsTag(a) ==
  IF a.kind = "str" THEN "wait" ELSE a.action_type

\* Lines 108-111, 135-138: the recorded action type.
ActionType(a) ==
  IF a.kind = "str" THEN "wait"
  ELSE IF a.action_type \in RecognizedTypes THEN a.action_type
  ELSE "wait"

\* Lines 96-102, 112-137: the recorded details.
ActionDetail(a, coords) ==
  IF a.kind = "str"
  THEN [detail_type |-> "string", detail |-> <<>>]
  ELSE CASE a.action_type \in {"click", "double_tap", "long_press"} ->
              [detail_type |-> "coordinates", detail |-> coords]
         [] a.action_type = "input_text" ->
              [detail_type |-> "string",
               detail |-> <<"The text \"", a.text, "\" has been inputted.">>]
         [] a.action_type = "keyboard_enter" ->
              [detail_type |-> "string", detail |-> <<>>]
         [] a.action_type = "navigate_back" ->
              [detail_type |-> "string",
               detail |-> <<"Back to the previous page.">>]
         [] a.action_type = "navigate_home" ->
              [detail_type |-> "string", detail |-> <<"Return to home page.">>]
         [] a.action_type = "open_app" ->
              [detail_type |-> "string", detail |-> <<a.app_name>>]
         [] a.action_type = "scroll" ->
              [detail_type |-> "string",
               detail |-> <<"The coordinates (", coords[1], ",", coords[2],
                            ") have been swiped to the ", a.direction, ".">>]
         [] a.action_type = "status" ->
              [detail_type |-> "string", detail |-> <<"Task completed.">>]
         [] a.action_type = "swipe" ->
              [detail_type |-> "string",
               detail |-> <<"The swipe action has been performed starting from coordinates (",
                            coords[1], ",", coords[2], ") to (",
                            coords[3], ",", coords[4], ").">>]
         [] OTHER ->
              [detail_type |-> "string",
               detail |-> <<"No action has been taken.">>]

\* Lines 94-139: action_log once action_log[0] = action_type has run.
Normalize ==
  /\ npc = "input"
  /\ action_log' = <<ActionType(converted_action),
                     ActionDetail(converted_action, data)>>
  /\ npc' = "normalized"
  /\ UNCHANGED <<converted_action, data>>
  /\ UNCHANGED notNormalize

(***************************************************************************)
(* Episode driver: benchmark_run.py, from the try block (line 51) to the   *)
(* process exit.  The agent is an environment: each agent.step raises or   *)
(* returns a response, which says whether the task is done and whether     *)
(* turning it into a log entry raises.                                     *)
(***************************************************************************)
MaxRounds == 3        \* --max_rounds ranges over 0..MaxRounds

Unbound == 0 - 1      \* a name that has not been assigned yet
NoExit == 0 - 1
NoResponse == [kind |-> "none"]
NoErrorFile == [exists |-> FALSE, content |-> <<>>]
OldErrorFile ==
  [exists |-> TRUE, content |-> <<[error_message |-> "left by an earlier run"]>>]

\* json()['usage'] of the two raw backend responses of a step; either may
\* be None.
ActionUsage == [prompt_tokens |-> 2, completion_tokens |-> 1]
SummaryUsage == [prompt_tokens |-> 3, completion_tokens |-> 5]
RawResponses == {<<a, b>> : a \in {None, ActionUsage}, b \in {None, SummaryUsage}}

\* Grounded actions the driver's agent emits: the string token, a recognized
\* structured action, and a structured action of the else branch.
DriverActions ==
  {[kind |-> "str", token |-> "wait"]} \cup
  [kind : {"structured"}, action_type : {"click", "answer"}, text : {""},
   app_name : {"Clock"}, direction : {"up"}]

\* What agent.step does: it raises, or returns a response.  `bad` says that
\* handling the response raises, and `bad_at` where: "interpret" is lines
\* 90-145 (screenshot, action, usage), "append" is the construction of the
\* entry at lines 148-153 (a log key missing from response.data).
AgentOutcomes ==
  {[kind |-> "raise"]} \cup
  [kind : {"response"}, done : BOOLEAN, bad : BOOLEAN,
   bad_at : {"interpret", "append"}, action : DriverActions,
   coords : {<<1, 2, 3, 4>>}, raw : RawResponses]

\* The part of an outcome kept in the history.
Sketch(out) ==
  IF out.kind = "raise" THEN out
  ELSE [kind |-> "response", done |-> out.done, bad |-> out.bad]

\* Mutant: the file is never written.
ErrorFileNeverWritten(file, error_message) == file

\* Mutant: the file is written whether it exists or not.
ErrorFileOverwritten(file, error_message) ==
  [exists |-> TRUE, content |-> <<[error_message |-> error_message]>>]

\* print_and_log_error: error.json after the call.
print_and_log_error(file, error_message) ==
  IF ~file.exists
  THEN [exists |-> TRUE, content |-> <<[error_message |-> error_message]>>]
  ELSE file

\* "total_steps": action_cnt - 1
TotalSteps(cnt) == cnt - 1

\* The summary entry appended after the finally block.
SummaryEntry(cnt, done, prompt, completion) ==
  [total_steps |-> TotalSteps(cnt), finish_signal |-> IF done THEN 1 ELSE 0,
   total_prompt_tokens |-> prompt, total_completion_tokens |-> completion]

\* Lines 140-145: sum(... for key in raw_response_key if response.data[key]
\* is not None).
PromptTokens(raw) ==
  (IF raw[1] = None THEN 0 ELSE raw[1].prompt_tokens)
  + (IF raw[2] = None THEN 0 ELSE raw[2].prompt_tokens)

CompletionTokens(raw) ==
  (IF raw[1] = None THEN 0 ELSE raw[1].completion_tokens)
  + (IF raw[2] = None THEN 0 ELSE raw[2].completion_tokens)

\* The step entry appended at the end of an iteration.
StepEntry(cnt, resp) ==
  [step |-> cnt,
   prompt_tokens |-> PromptTokens(resp.raw),
   completion_tokens |-> CompletionTokens(resp.raw),
   action |-> <<ActionType(resp.action), ActionDetail(resp.action, resp.coords)>>]

\* Mutant: reaching max rounds is reported as an unexpected stop.
ExitCodeNoMaxRounds(code, done, cnt, rounds) ==
  IF code \in {2, 3} THEN code
  ELSE IF done THEN 0
  ELSE 1

\* Lines 177-188: the process exit status.
ExitCode(code, done, cnt, rounds) ==
  IF code \in {2, 3} THEN code
  ELSE IF done THEN 0
  ELSE IF cnt = rounds THEN 4
  ELSE 1

\* Mutant: the session is not closed.
CloseSkipped(n) == n

\* finally: env.close()
CloseCalled(n) == n + 1

\* Mutant: the loop goes on after a log-handling error.
AfterLogErrorContinue == "loop"

\* Line 161: break.
AfterLogError == "finally"

\* Lines 52-81: env.reset, the agent's construction, the locals.  An
\* exception here is not handled: it propagates through the finally block.
Setup(ok) ==
  /\ dpc = "setup"
  /\ IF ok
     THEN /\ is_done' = FALSE
          /\ benchmark_log' = <<>>
          /\ error_code' = 0
          /\ total_prompt_tokens' = 0
          /\ total_completion_tokens' = 0
          /\ dpc' = "loop"
          /\ UNCHANGED raising
     ELSE /\ raising' = "SetupError"
          /\ dpc' = "finally"
          /\ UNCHANGED <<is_done, benchmark_log, error_code,
                         total_prompt_tokens, total_completion_tokens>>
  /\ UNCHANGED <<max_rounds, action_cnt, response, uncaught, error_file,
                 log_file, exit_code, agent_steps, closes, log_writes,
                 error_reports, behaviour>>
  /\ UNCHANGED notDriver

\* Line 82: for action_cnt in range(1, args.max_rounds + 1).
LoopNext ==
  /\ dpc = "loop"
  /\ LET next == IF action_cnt = Unbound THEN 1 ELSE action_cnt + 1
     IN IF next < max_rounds + 1
        THEN action_cnt' = next /\ dpc' = "step"
        ELSE dpc' = "finally" /\ UNCHANGED action_cnt
  /\ UNCHANGED <<total_prompt_tokens, total_completion_tokens>>
  /\ UNCHANGED <<max_rounds, is_done, error_code, benchmark_log, response,
                 raising, uncaught, error_file, log_file, exit_code,
                 agent_steps, closes, log_writes, error_reports, behaviour>>
  /\ UNCHANGED notDriver

\* Lines 83-88: response = agent.step(args.task), and its except clause.
AgentStep(out) ==
  /\ dpc = "step"
  /\ agent_steps' = agent_steps + 1
  /\ behaviour' = Append(behaviour, Sketch(out))
  /\ IF out.kind = "raise"
     THEN /\ error_file' = print_and_log_error(error_file, "Error taking step")
          /\ error_reports' = error_reports + 1
          /\ error_code' = 2
          /\ dpc' = "finally"
          /\ UNCHANGED response
     ELSE /\ response' = out
          /\ dpc' = "log"
          /\ UNCHANGED <<error_file, error_reports, error_code>>
  /\ UNCHANGED <<total_prompt_tokens, total_completion_tokens>>
  /\ UNCHANGED <<max_rounds, action_cnt, is_done, benchmark_log, raising,
                 uncaught, log_file, exit_code, closes, log_writes>>
  /\ UNCHANGED notDriver

\* Lines 89-161: the step's log entry, the completion test, and the except
\* clause of the log handling.
HandleLog ==
  /\ dpc = "log"
  /\ response' = NoResponse
  /\ IF response.bad
     THEN /\ error_file' = print_and_log_error(error_file, "Error handling log")
          /\ error_reports' = error_reports + 1
          /\ error_code' = 1
          /\ dpc' = AfterLogError
          /\ IF response.bad_at = "append"
             THEN /\ total_prompt_tokens' =
                       total_prompt_tokens + PromptTokens(response.raw)
                  /\ total_completion_tokens' =
                       total_completion_tokens + CompletionTokens(response.raw)
             ELSE UNCHANGED <<total_prompt_tokens, total_completion_tokens>>
          /\ UNCHANGED <<benchmark_log, is_done>>
     ELSE /\ total_prompt_tokens' =
               total_prompt_tokens + PromptTokens(response.raw)
          /\ total_completion_tokens' =
               total_completion_tokens + CompletionTokens(response.raw)
          /\ benchmark_log' = Append(benchmark_log,
                                     StepEntry(action_cnt, response))
          /\ is_done' = IF response.done THEN TRUE ELSE is_done
          /\ dpc' = IF response.done THEN "finally" ELSE "loop"
          /\ UNCHANGED <<error_file, error_reports, error_code>>
  /\ UNCHANGED <<max_rounds, action_cnt, raising, uncaught, log_file,
                 exit_code, agent_steps, closes, log_writes, behaviour>>
  /\ UNCHANGED notDriver

\* Lines 162-163: finally: env.close(); a propagating exception then ends
\* the process.
Close ==
  /\ dpc = "finally"
  /\ closes' = CloseCalled(closes)
  /\ IF raising # "none"
     THEN /\ uncaught' = raising
          /\ exit_code' = 1
          /\ dpc' = "exited"
     ELSE /\ dpc' = "summary"
          /\ UNCHANGED <<uncaught, exit_code>>
  /\ UNCHANGED <<total_prompt_tokens, total_completion_tokens>>
  /\ UNCHANGED <<max_rounds, action_cnt, is_done, error_code, benchmark_log,
                 response, raising, error_file, log_file, agent_steps,
                 log_writes, error_reports, behaviour>>
  /\ UNCHANGED notDriver

\* Lines 165-172: the summary entry.  Reading action_cnt when the loop body
\* never ran raises NameError, which nothing handles.
Summary ==
  /\ dpc = "summary"
  /\ IF action_cnt = Unbound
     THEN /\ uncaught' = "NameError"
          /\ exit_code' = 1
          /\ dpc' = "exited"
          /\ UNCHANGED benchmark_log
     ELSE /\ benchmark_log' = Append(benchmark_log,
                                     SummaryEntry(action_cnt, is_done,
                                                  total_prompt_tokens,
                                                  total_completion_tokens))
          /\ dpc' = "write"
          /\ UNCHANGED <<uncaught, exit_code>>
  /\ UNCHANGED <<total_prompt_tokens, total_completion_tokens>>
  /\ UNCHANGED <<max_rounds, action_cnt, is_done, error_code, response,
                 raising, error_file, log_file, agent_steps, closes,
                 log_writes, error_reports, behaviour>>
  /\ UNCHANGED notDriver

\* Lines 174-175: json.dump(benchmark_log, logfile).
WriteLog ==
  /\ dpc = "write"
  /\ log_file' = benchmark_log
  /\ log_writes' = log_writes + 1
  /\ dpc' = "exit"
  /\ UNCHANGED <<total_prompt_tokens, total_completion_tokens>>
  /\ UNCHANGED <<max_rounds, action_cnt, is_done, error_code, benchmark_log,
                 response, raising, uncaught, error_file, exit_code,
                 agent_steps, closes, error_reports, behaviour>>
  /\ UNCHANGED notDriver

\* Lines 177-188: sys.exit.
Exit ==
  /\ dpc = "exit"
  /\ exit_code' = ExitCode(error_code, is_done, action_cnt, max_rounds)
  /\ dpc' = "exited"
  /\ UNCHANGED <<total_prompt_tokens, total_completion_tokens>>
  /\ UNCHANGED <<max_rounds, action_cnt, is_done, error_code, benchmark_log,
                 response, raising, uncaught, error_file, log_file,
                 agent_steps, closes, log_writes, error_reports, behaviour>>
  /\ UNCHANGED notDriver

(***************************************************************************)
(* Initial states and specifications.                                      *)
(***************************************************************************)
GatewayInit ==
  /\ pc = "new"
  /\ variant = "none"
  /\ ctor_arg = 0
  /\ error = "none"
  /\ max_retry = 0
  /\ time_of_last_request = 0
  /\ now = 0
  /\ counter = 0
  /\ retry_delay = 0
  /\ wait_seconds = 0
  /\ result = <<>>
  /\ outcomes = <<>>
  /\ sleeps = <<>>
  /\ pacing = 0
  /\ issued = 0
  /\ invokes = 0

\* The state of the layer when captures begin.  (The handle in _env is
\* drawn by InitObs: UITreeWrapper.__init__ puts an A11yGrpcWrapper around
\* the session it is given; get_a11y_tree itself accepts any session.)
ObsInit ==
  /\ opc = "idle"
  /\ attempt = 1
  /\ tries = 0
  /\ forest = NoForest
  /\ oerror = "none"
  /\ probes = 0
  /\ net_fixes = 0
  /\ naps = 0
  /\ reconnects = 0
  /\ poll_log = <<>>
  /\ env_at_start = env
  /\ sessions = 1
  /\ captures = 0

\* The driver once env_launcher.load_and_setup_env has returned (line 48).
DriverInit ==
  /\ dpc = "setup"
  /\ action_cnt = Unbound
  /\ is_done = FALSE
  /\ error_code = 0
  /\ benchmark_log = <<>>
  /\ total_prompt_tokens = 0
  /\ total_completion_tokens = 0
  /\ response = NoResponse
  /\ raising = "none"
  /\ uncaught = "none"
  /\ log_file = <<>>
  /\ exit_code = NoExit
  /\ agent_steps = 0
  /\ closes = 0
  /\ log_writes = 0
  /\ error_reports = 0
  /\ behaviour = <<>>

\* A step whose grounded action is the string token, before line 94.
NormalizeInit ==
  /\ npc = "input"
  /\ converted_action = [kind |-> "str", token |-> "wait"]
  /\ data = <<1, 2, 3, 4>>
  /\ action_log = <<>>

InitGateway ==
  /\ environ \in SUBSET {"GCP_API_KEY", "OPENAI_API_KEY"}
  /\ GatewayInit
  /\ env = [id |-> 1, chain |-> <<A11yGrpcWrapper, "AndroidEnv">>,
            config |-> "emulator-5554"]
  /\ ObsInit
  /\ max_rounds = 1
  /\ error_file = NoErrorFile
  /\ DriverInit
  /\ NormalizeInit

InitObs ==
  /\ environ = {"OPENAI_API_KEY"}
  /\ GatewayInit
  /\ env \in [id : {1}, chain : SessionChains, config : SessionConfigs]
  /\ ObsInit
  /\ max_rounds = 1
  /\ error_file = NoErrorFile
  /\ DriverInit
  /\ NormalizeInit

InitDriver ==
  /\ environ = {"OPENAI_API_KEY"}
  /\ GatewayInit
  /\ env = [id |-> 1, chain |-> <<A11yGrpcWrapper, "AndroidEnv">>,
            config |-> "emulator-5554"]
  /\ ObsInit
  /\ max_rounds \in 0..MaxRounds
  /\ error_file \in {NoErrorFile, OldErrorFile}
  /\ DriverInit
  /\ NormalizeInit

InitNormalize ==
  /\ environ = {"OPENAI_API_KEY"}
  /\ GatewayInit
  /\ env = [id |-> 1, chain |-> <<A11yGrpcWrapper, "AndroidEnv">>,
            config |-> "emulator-5554"]
  /\ ObsInit
  /\ max_rounds = 1
  /\ error_file = NoErrorFile
  /\ DriverInit
  /\ npc = "input"
  /\ converted_action \in GroundedActions
  /\ data \in Coordinates
  /\ action_log = <<>>

GatewayStep ==
  \/ \E arg \in RetryArgs : GeminiInit(arg)
  \/ \E arg \in RetryArgs : Gpt4Init(arg)
  \/ \E gap \in IdleGaps : GeminiStart(gap)
  \/ \E out \in GeminiOutcomes, dur \in CallTimes, over \in Oversleeps :
        GeminiAttempt(out, dur, over)
  \/ Gpt4Start
  \/ \E out \in Gpt4Outcomes : Gpt4Attempt(out)
  \/ InvokeDone

ObsStep ==
  \/ CaptureStart
  \/ CheckWrapper
  \/ \E on \in BOOLEAN : ProbeAirplaneMode(on)
  \/ \E out \in PollOutcomes : Poll(out)
  \/ Refresh
  \/ CaptureDone

DriverStep ==
  \/ \E ok \in BOOLEAN : Setup(ok)
  \/ LoopNext
  \/ \E out \in AgentOutcomes : AgentStep(out)
  \/ HandleLog
  \/ Close
  \/ Summary
  \/ WriteLog
  \/ Exit

NextGateway == GatewayStep
NextObs == ObsStep
NextDriver == DriverStep
NextNormalize == Normalize

SpecGateway == InitGateway /\ [][NextGateway]_vars
SpecObs == InitObs /\ [][NextObs]_vars
SpecDriver == InitDriver /\ [][NextDriver]_vars
SpecNormalize == InitNormalize /\ [][NextNormalize]_vars

(***************************************************************************)
(* Properties of the inference gateway.                                    *)
(***************************************************************************)
InInvoke == pc \in {"loop", "returned"}
AllRaise(h) == \A i \in 1..Len(h) : h[i].kind = "raise"
FailsThenOk(h) ==
  /\ Len(h) >= 1
  /\ Last(h).kind = "ok"
  /\ \A i \in 1..(Len(h) - 1) : h[i].kind # "ok"
RECURSIVE Pow2(_)
Pow2(n) == IF n <= 0 THEN 1 ELSE 2 * Pow2(n - 1)
BaseDelay == IF variant = "A" THEN 15 ELSE 20

\* C1: Gpt4Wrapper.predict_mm issues at most max_retry (the effective
\* budget) remote calls per invoke, whatever the failures are.
C1_Gpt4CallsWithinBudget ==
  (variant = "B" /\ InInvoke) => Len(outcomes) <= max_retry

\* C2: when every remote call raises, predict_mm (both variants) makes
\* exactly max_retry attempts and returns the sentinel without raising, and
\* the backoff slept before the k-th retry is baseDelay * 2^(k-1), with
\* baseDelay 15 (Gemini) and 20 (Gpt4); Gemini adds no pacing wait to a retry.
C2_AlwaysRaising ==
  (InInvoke /\ AllRaise(outcomes)) =>
    /\ pc = "loop" => Len(outcomes) < max_retry
    /\ pc = "returned" =>
         /\ Len(outcomes) = max_retry
         /\ result = Sentinel
         /\ error = "none"
    /\ \A k \in 1..Len(outcomes) :
         k < max_retry =>
           /\ Len(sleeps) >= k
           /\ sleeps[k] = BaseDelay * Pow2(k - 1)
    /\ (variant = "A" /\ Len(outcomes) >= 2) => pacing = 0

C2_Witness ==
  /\ pc = "returned" /\ AllRaise(outcomes)
  /\ Len(outcomes) = 4 /\ max_retry = 4
  /\ sleeps = <<15, 30, 60>>

\* C3: on one GeminiGcpWrapper instance, the issue times of two consecutive
\* generate_content calls differ by at least TIME_BETWEEN_REQUESTS (15 s),
\* and the first call of a fresh instance is issued without any wait.
C3_Pacing ==
  [][ issued' = issued + 1 =>
        IF issued = 0
        THEN time_of_last_request' = now /\ pacing' = 0
        ELSE time_of_last_request' - time_of_last_request >= 15 ]_vars

C3_Witness ==
  /\ variant = "A" /\ issued >= 2 /\ invokes = 2
  /\ pacing > 0
  /\ Len(outcomes) = 1

\* C4: when the first k-1 remote calls fail and the k-th succeeds, k within
\* the budget, predict_mm (both variants) makes exactly k calls and returns
\* the k-th response's text and the response itself; it gives up with the
\* sentinel only after at least max_retry failed calls.
C4_KthCallSucceeds ==
  /\ (InInvoke /\ \E i \in 1..Len(outcomes) : outcomes[i].kind = "ok") =>
       /\ FailsThenOk(outcomes)
       /\ pc = "returned"
       /\ result = <<Last(outcomes).text, Last(outcomes)>>
       /\ result[2] # None
  /\ (pc = "returned" /\ ~FailsThenOk(outcomes)) =>
       /\ result = Sentinel
       /\ Len(outcomes) >= max_retry

C4_Witness ==
  /\ pc = "returned" /\ variant = "A"
  /\ FailsThenOk(outcomes)
  /\ Len(outcomes) = 3 /\ max_retry = 3
  /\ result[1] = "t2"

\* C5: the effective retry budget is 3 for an argument <= 0, 5 for an
\* argument > 5 and the argument itself otherwise; it is always in 1..5 and
\* a non-positive argument raises nothing (the only construction error is
\* the missing credential).
C5_ClampedBudget ==
  /\ (pc = "idle" /\ invokes = 0) =>
       /\ max_retry = IF ctor_arg <= 0 THEN 3
                      ELSE IF ctor_arg > 5 THEN 5 ELSE ctor_arg
       /\ error = "none"
  /\ pc \in {"idle", "loop", "returned"} => max_retry \in 1..5
  /\ pc = "ctor_raised" =>
       \/ variant = "A" /\ "GCP_API_KEY" \notin environ
       \/ variant = "B" /\ "OPENAI_API_KEY" \notin environ

C5_Witness ==
  /\ pc = "idle" /\ invokes = 0
  /\ ctor_arg < 0 /\ max_retry = 3

\* C6: constructing a gateway whose credential variable (GCP_API_KEY for
\* Gemini, OPENAI_API_KEY for Gpt4) is absent raises at once: no instance
\* exists, no remote call and no sleep is ever made; and no such error is
\* raised once predict_mm has been entered.
C6_MissingCredential ==
  LET missing == \/ variant = "A" /\ "GCP_API_KEY" \notin environ
                 \/ variant = "B" /\ "OPENAI_API_KEY" \notin environ
  IN /\ missing =>
          /\ pc = "ctor_raised"
          /\ error = "RuntimeError"
          /\ invokes = 0 /\ issued = 0
          /\ outcomes = <<>> /\ sleeps = <<>> /\ now = 0
     /\ error = "RuntimeError" => (pc = "ctor_raised" /\ invokes = 0)

C6_Witness ==
  /\ pc = "ctor_raised" /\ variant = "B"
  /\ "OPENAI_API_KEY" \notin environ /\ "GCP_API_KEY" \in environ

(***************************************************************************)
(* Properties of the observation recovery layer.                           *)
(***************************************************************************)
InCapture == opc # "idle"
AllMiss(h, a, b) == \A i \in a..b : h[i].kind = "KeyError"
Polls == Len(poll_log)

\* C7: if the polls of the first sequence find no snapshot on attempts
\* 1..j-1 and a snapshot on attempt j <= 5, get_a11y_forest makes exactly j
\* polls, returns that snapshot, does not reconnect and leaves _env as it
\* was; the sequence is not given up before 5 polls.
C7_SnapshotWithoutReconnect ==
  /\ \A j \in 1..5 :
       (InCapture /\ j <= Polls /\ poll_log[j].kind = "forest"
          /\ AllMiss(poll_log, 1, j - 1)) =>
         /\ Polls = j
         /\ opc = "returned"
         /\ oerror = "none"
         /\ forest.tree = poll_log[j].tree
         /\ reconnects = 0
         /\ env = env_at_start
  /\ (InCapture /\ (opc = "refresh" \/ reconnects > 0)) => Polls >= 5

C7_Witness ==
  /\ opc = "returned" /\ Polls = 5
  /\ AllMiss(poll_log, 1, 4)
  /\ forest.tree = "f2" /\ reconnects = 0 /\ naps >= 4

\* C8: if all 5 polls of the first sequence and, after the reconnect, all 5
\* polls of the second sequence find no snapshot, get_a11y_forest raises
\* RuntimeError to its caller after exactly one reconnect and exactly 10
\* polls; there is never a third sequence or a second reconnect.
C8_DoubleExhaustion ==
  /\ (InCapture /\ Polls = 10 /\ AllMiss(poll_log, 1, 10)) =>
       /\ opc = "raised"
       /\ oerror = "RuntimeError"
       /\ reconnects = 1
  /\ InCapture => (Polls <= 10 /\ reconnects <= 1)
  /\ oerror = "RuntimeError" =>
       (Polls = 10 /\ AllMiss(poll_log, 1, 10) /\ opc = "raised")

C8_Witness ==
  /\ opc = "raised" /\ oerror = "RuntimeError"
  /\ Polls = 10 /\ reconnects = 1 /\ attempt = 2

\* C9: one get_a11y_forest call replaces the session at most once, and only
\* after 5 consecutive polls of the current session found no snapshot; when
\* the j-th poll (j <= 5) of the second sequence finds a snapshot, the call
\* returns it, taken from the newly built session, after 5 + j polls.
C9_ReconnectOnce ==
  /\ reconnects \in {0, 1}
  /\ reconnects = 0 => env = env_at_start
  /\ (InCapture /\ reconnects = 1) =>
       /\ Polls >= 5
       /\ AllMiss(poll_log, 1, 5)
       /\ env.id # env_at_start.id
       /\ env.config = env_at_start.config
  /\ (opc = "returned" /\ reconnects = 1) =>
       /\ Polls \in 6..10
       /\ AllMiss(poll_log, 1, Polls - 1)
       /\ forest = [tree |-> Last(poll_log).tree, session |-> env.id]
       /\ forest.session # env_at_start.id

C9_Witness ==
  /\ opc = "returned" /\ reconnects = 1
  /\ Polls = 7 /\ forest.session = 2
  /\ env_at_start.id = 1

\* C10: if no layer of the session's chain is the A11yGrpcWrapper,
\* get_a11y_forest raises ValueError before any airplane-mode probe or poll,
\* and the error does not start the reconnect-and-retry cycle: _env is not
\* replaced.  ValueError is raised in no other case.
C10_MissingWrapperFatal ==
  LET chain == env_at_start.chain
      lacks == \A i \in 1..Len(chain) : chain[i] # "A11yGrpcWrapper"
  IN /\ (InCapture /\ ~(opc = "check" /\ attempt = 1) /\ lacks) =>
          /\ opc = "raised"
          /\ oerror = "ValueError"
          /\ probes = 0 /\ Polls = 0 /\ naps = 0 /\ net_fixes = 0
          /\ reconnects = 0
          /\ env = env_at_start
     /\ (InCapture /\ oerror = "ValueError") => lacks

C10_Witness ==
  /\ opc = "raised" /\ oerror = "ValueError"
  /\ env.chain = <<"BaseWrapper", "AndroidEnv">>
  /\ probes = 0 /\ reconnects = 0

(***************************************************************************)
(* Episode driver: properties, checked under SpecDriver.                   *)
(***************************************************************************)
DriverExited == dpc = "exited"
IsStepEntry(e) == "step" \in DOMAIN e
IsSummary(e) == "total_steps" \in DOMAIN e
Front(s) == SubSeq(s, 1, Len(s) - 1)

\* The record is n step entries followed by one summary entry.
StepsThenSummary(log, n) ==
  /\ Len(log) = n + 1
  /\ \A i \in 1..n : IsStepEntry(log[i])
  /\ IsSummary(log[n + 1])

\* Every step of h returned a response that was logged without an error and
\* did not signal completion.
AllQuiet(h) ==
  \A i \in 1..Len(h) : h[i].kind = "response" /\ ~h[i].bad /\ ~h[i].done

\* C11: when the agent first signals completion on step k and no step or
\* log error occurs, the written log has exactly k step entries followed by
\* one summary entry with finish_signal = 1 and total_steps = k, and the
\* process exits with code 0.
C11_CompletionRecord ==
  ( /\ DriverExited
    /\ behaviour # <<>>
    /\ AllQuiet(Front(behaviour))
    /\ Last(behaviour).kind = "response"
    /\ ~Last(behaviour).bad /\ Last(behaviour).done )
  => /\ StepsThenSummary(log_file, Len(behaviour))
     /\ Last(log_file).finish_signal = 1
     /\ Last(log_file).total_steps = Len(behaviour)
     /\ exit_code = 0

\* C12: for M >= 1, when the agent never signals completion and no step or
\* log error occurs, the agent is stepped exactly M times, the written log
\* has exactly M step entries followed by one summary entry with
\* finish_signal = 0, and the process exits with code 4.
C12_MaxRounds ==
  ( /\ DriverExited
    /\ max_rounds >= 1
    /\ raising = "none"
    /\ AllQuiet(behaviour) )
  => /\ agent_steps = max_rounds
     /\ Len(behaviour) = max_rounds
     /\ StepsThenSummary(log_file, max_rounds)
     /\ Last(log_file).finish_signal = 0
     /\ exit_code = 4

C12_Witness ==
  /\ DriverExited
  /\ max_rounds = 2
  /\ raising = "none"
  /\ AllQuiet(behaviour)
  /\ exit_code = 4

\* C13: when agent.step raises on step k (1 <= k <= M, k = M included)
\* after k-1 quiet steps, the loop stops with the step-error code, the
\* written log has exactly k-1 step entries plus one summary entry with
\* finish_signal = 0, one error-log entry is recorded when no error file
\* existed before, and the process exits with code 2.
C13_StepError ==
  ( /\ DriverExited
    /\ behaviour # <<>>
    /\ AllQuiet(Front(behaviour))
    /\ Last(behaviour).kind = "raise" )
  => /\ error_code = 2
     /\ StepsThenSummary(log_file, Len(behaviour) - 1)
     /\ Last(log_file).finish_signal = 0
     /\ error_reports = 1
     /\ error_file # OldErrorFile =>
          error_file = [exists |-> TRUE,
                        content |-> <<[error_message |-> "Error taking step"]>>]
     /\ exit_code = 2

C13_Witness ==
  /\ DriverExited
  /\ max_rounds = 2
  /\ Len(behaviour) = max_rounds
  /\ Last(behaviour).kind = "raise"
  /\ error_file # OldErrorFile
  /\ exit_code = 2

\* C14: when an exception is raised while interpreting or logging step k
\* (1 <= k <= M, k = M included), the driver ends with the log-error code
\* and the process exits with code 1, never with code 4.
C14_LogErrorExit ==
  ( /\ DriverExited
    /\ behaviour # <<>>
    /\ Last(behaviour).kind = "response"
    /\ Last(behaviour).bad )
  => /\ error_code = 1
     /\ exit_code = 1

\* C15: for every M >= 0 and every agent behaviour, once the loop has
\* exited a trailing summary entry is appended and log.json is written
\* exactly once; no run ends the loop section without a log.
C15_OneRecordPerRun ==
  (DriverExited /\ raising = "none")
  => /\ log_writes = 1
     /\ log_file # <<>>
     /\ IsSummary(Last(log_file))

\* C16: on every path out of the guarded section env.close is called
\* exactly once, and the agent is never stepped after the close.
C16_SessionClosedOnce ==
  /\ [](/\ dpc \in {"summary", "write", "exit", "exited"} => closes = 1
        /\ dpc \in {"setup", "loop", "step", "log", "finally"} => closes = 0)
  /\ [][closes >= 1 => agent_steps' = agent_steps]_vars

C16_Witness ==
  /\ DriverExited
  /\ closes = 1
  /\ agent_steps >= 1
  /\ error_code = 1

(***************************************************************************)
(* Action normalization: properties, checked under SpecNormalize.          *)
(***************************************************************************)
\* C17: every grounded action (a string token, or a structured action with
\* any tag) yields exactly one (actionType, detail) pair; the recorded type
\* is one of the twelve of the table; and a structured action whose tag is
\* outside the eleven recognized non-wait tags yields
\* (wait, "No action has been taken.").
C17_NormalizationTotal ==
  npc = "normalized" =>
    /\ Len(action_log) = 2
    /\ action_log[1] \in
         {"click", "double_tap", "input_text", "keyboard_enter", "long_press",
          "navigate_back", "navigate_home", "open_app", "scroll", "status",
          "swipe", "wait"}
    /\ DOMAIN action_log[2] = {"detail_type", "detail"}
    /\ ( /\ converted_action.kind = "structured"
         /\ converted_action.action_type \notin
              {"click", "double_tap", "input_text", "keyboard_enter",
               "long_press", "navigate_back", "navigate_home", "open_app",
               "scroll", "status", "swipe"} )
       => action_log = <<"wait", [detail_type |-> "string",
                                  detail |-> <<"No action has been taken.">>]>>

C17_Witness ==
  /\ npc = "normalized"
  /\ converted_action.kind = "structured"
  /\ converted_action.action_type = "None"
  /\ action_log[1] = "wait"

(***************************************************************************)
(* Episode driver: error file, sequencing and summary, under SpecDriver.   *)
(***************************************************************************)
\* C18: error.json is written only when none exists; a file that is present
\* when an error is reported keeps its content; at most one error report is
\* made per run.
C18_ErrorFileWriteOnce ==
  /\ [][error_file.exists => error_file' = error_file]_vars
  /\ [](error_reports <= 1)

C18_Witness ==
  /\ DriverExited
  /\ error_reports = 1
  /\ error_file = OldErrorFile

\* C19: agent.step is invoked for indices 1, 2, 3, ... in order, once per
\* index and at most max_rounds times; step i+1 is invoked only after the
\* entries of steps 1..i have been appended; no step is invoked after a
\* completion signal, a step exception or a log exception.
C19_StrictSequencing ==
  [][agent_steps' # agent_steps =>
       /\ agent_steps' = agent_steps + 1
       /\ agent_steps' <= max_rounds
       /\ action_cnt = agent_steps'
       /\ Len(benchmark_log) = agent_steps
       /\ \A i \in 1..agent_steps : benchmark_log[i].step = i
       /\ AllQuiet(behaviour)
       /\ ~is_done /\ error_code = 0]_vars

C19_Witness ==
  /\ agent_steps = 3
  /\ dpc = "log"
  /\ Len(benchmark_log) = 2

\* C20: in every terminal state the total_steps field of the trailing
\* summary entry equals the number of step entries that precede it.
C20_TotalStepsCountsEntries ==
  (DriverExited /\ log_file # <<>>)
  => Last(log_file).total_steps = Len(log_file) - 1

(***************************************************************************)
(* Inference gateway: backoff after the last attempt, under SpecGateway.   *)
(***************************************************************************)
\* C22: in both gateway variants a backoff sleep happens only when another
\* attempt follows: a predict_mm call that fails on all B = max_retry
\* attempts returns the sentinel after exactly B-1 backoff sleeps.
C22_NoSleepAfterLastAttempt ==
  ( /\ pc = "returned"
    /\ result = Sentinel
    /\ Len(outcomes) = max_retry )
  => Len(sleeps) = max_retry - 1

(***************************************************************************)
(* Episode driver: the actions and token counts of the record, under       *)
(* SpecDriver.                                                             *)
(***************************************************************************)
\* C21: every step entry whose recorded action type is wait carries the
\* detail "No action has been taken.", whether the wait came from the string
\* token or from a structured action of the else branch.
C21_ConsistentWaitRecord ==
  \A i \in 1..Len(benchmark_log) :
    (IsStepEntry(benchmark_log[i]) /\ benchmark_log[i].action[1] = "wait")
    => benchmark_log[i].action[2].detail = <<"No action has been taken.">>

RECURSIVE SumPromptTokens(_)
SumPromptTokens(log) ==
  IF log = <<>> THEN 0
  ELSE SumPromptTokens(Front(log))
       + (IF IsStepEntry(Last(log)) THEN Last(log).prompt_tokens ELSE 0)

RECURSIVE SumCompletionTokens(_)
SumCompletionTokens(log) ==
  IF log = <<>> THEN 0
  ELSE SumCompletionTokens(Front(log))
       + (IF IsStepEntry(Last(log)) THEN Last(log).completion_tokens ELSE 0)

\* C23: in every terminal state the summary's total_prompt_tokens and
\* total_completion_tokens equal the sums of the prompt_tokens and
\* completion_tokens of the step entries in the log; a step that fails
\* while being logged contributes to neither.
C23_TokenTotalsMatchLog ==
  (DriverExited /\ log_file # <<>>)
  => /\ Last(log_file).total_prompt_tokens = SumPromptTokens(log_file)
     /\ Last(log_file).total_completion_tokens = SumCompletionTokens(log_file)

====
